---- MODULE Spec2Model ----
(***************************************************************************)
(* Model of examples/tutorial_server_enumerationtype.c: main registers two *)
(* custom enumeration data types, attaches their member lists as property  *)
(* nodes, creates one data-source variable per type and then serves reads  *)
(* and writes of those variables through readValue / writeValue.           *)
(***************************************************************************)
EXTENDS Integers, Sequences, FiniteSets, TLC

(* ---------------- bounds of the model ---------------- *)
\* number of readValue calls that are given an output container
MaxReads == 7
\* number of ticks of the wall clock
MaxTime == 1

(* ---------------- program constants ---------------- *)
ENUMVALUES_LEN == 5
\* a UA_UInt32 is kept as its two 16-bit halves: 0x80000000 is <<0x8000, 0x0000>>
HalfMod == 65536
FreeNodeIdInitHi == 32768
FreeNodeIdInitLo == 0
DataTypesLen == 2
DataTypeArraySize == 2
\* length literal passed to UA_Variant_setArray in addEnumValues / addLocalizedText
EnumValuesArrayLen == 5
EnumStringsArrayLen == 5
\* arrayDimensions[0] declared by addEnumValues / addLocalizedText
EnumValuesDim == ENUMVALUES_LEN
\* variant of EnumStringsDim: a declared length that is not the length supplied
EnumStringsDim_short == ENUMVALUES_LEN - 2
EnumStringsDim == 0
\* namespace index returned by UA_Server_addNamespace for the test namespace
testNs == 2
\* namespace-0 identifiers used by the program
UA_NS0ID_INT32 == 6
UA_NS0ID_LOCALIZEDTEXT == 21
UA_NS0ID_ENUMERATION == 29
UA_NS0ID_OBJECTSFOLDER == 85
UA_NS0ID_ENUMVALUETYPE == 7594

NULL == "NULL"
UA_STATUSCODE_GOOD == "Good"
UA_STATUSCODE_BADNOTFOUND == "BadNotFound"
UA_STATUSCODE_BADOUTOFMEMORY == "BadOutOfMemory"
UA_STATUSCODE_BADTYPEMISMATCH == "BadTypeMismatch"
UA_STATUSCODE_BADNODEIDEXISTS == "BadNodeIdExists"
UA_STATUSCODE_BADPARENTNODEIDINVALID == "BadParentNodeIdInvalid"

UInt32(n) == [hi |-> n \div HalfMod, lo |-> n % HalfMod]

\* a < b on UA_UInt32
UInt32Less(a, b) == a.hi < b.hi \/ (a.hi = b.hi /\ a.lo < b.lo)

UA_NODEID_NUMERIC(ns, i) == [ns |-> ns, id |-> i]

VARIABLES
    pc,               \* position of main
    FreeNodeId,       \* static UA_UInt32 FreeNodeId
    DataTypes,        \* static UA_DataType DataTypes[2]
    UsedDataTypes,    \* static size_t UsedDataTypes
    customDataTypes,  \* config->customDataTypes: NULL or the address of DataTypeArray
    nodes,            \* the server's address space: the nodes added so far
    handedOut,        \* node ids taken from ++FreeNodeId, in order
    enumValueType,    \* main's local: id of CustomEnumValueType
    enumLocalizedText,\* main's local: id of CustomLocalizedTextType
    parentNodeId,     \* main's local: id of the folder
    value,            \* static UA_Int32 value of readValue
    now,              \* the wall clock read by UA_DateTime_now
    last,             \* the last read or write served and what it returned
    calls,            \* per variable: readValue calls given an output container
    okReads           \* the number of reads that returned UA_STATUSCODE_GOOD

vars == <<pc, FreeNodeId, DataTypes, UsedDataTypes, customDataTypes, nodes,
          handedOut, enumValueType, enumLocalizedText, parentNodeId, value,
          now, last, calls, okReads>>

setupVars == <<FreeNodeId, DataTypes, UsedDataTypes, customDataTypes, nodes,
               handedOut, enumValueType, enumLocalizedText, parentNodeId>>
serveVars == <<value, last, calls, okReads>>

(* ---------------- static data ---------------- *)
\* static UA_DataType DataTypes[2] = {0}
ZeroDataType == [typeName |-> NULL, typeId |-> UA_NODEID_NUMERIC(0, UInt32(0)),
                 binaryEncodingId |-> UA_NODEID_NUMERIC(0, UInt32(0)), typeKind |-> "zero"]

\* static UA_DataTypeArray DataTypeArray = {NULL, 2, DataTypes, UA_FALSE}
DataTypeArray == [next |-> NULL, typesSize |-> DataTypeArraySize, types |-> "DataTypes",
                  cleanup |-> FALSE]

VariableNames == {"EnumValueTypeVariable", "LocalizedTextVariable"}

NoNodeId == UA_NODEID_NUMERIC(0, UInt32(0))

\* a UA_DataValue as the server hands it to a read callback (UA_DataValue_init)
UA_DataValue_init == [hasValue |-> FALSE,
                      value |-> [type |-> NoNodeId, arrayLength |-> -1, data |-> <<>>],
                      hasSourceTimestamp |-> FALSE, sourceTimestamp |-> 0]

NoOp == [op |-> "none", node |-> NULL, arg |-> NULL,
         payload |-> [type |-> NoNodeId, arrayLength |-> -1, data |-> <<>>],
         status |-> NULL, dataValue |-> UA_DataValue_init, at |-> 0]

Init ==
    /\ pc = "addFolderNode"
    /\ FreeNodeId = [hi |-> FreeNodeIdInitHi, lo |-> FreeNodeIdInitLo]
    /\ DataTypes = [i \in 0 .. DataTypesLen - 1 |-> ZeroDataType]
    /\ UsedDataTypes = 0
    /\ customDataTypes = NULL
    /\ nodes = {}
    /\ handedOut = <<>>
    /\ enumValueType = NoNodeId
    /\ enumLocalizedText = NoNodeId
    /\ parentNodeId = NoNodeId
    /\ value = 0
    /\ now = 0
    /\ last = NoOp
    /\ calls = [n \in VariableNames |-> 0]
    /\ okReads = 0

(* ---------------- the server library, at its interface ---------------- *)
NodeIds == {n.nodeId : n \in nodes}

\* nodes of namespace 0 that exist in every server
PredefinedNodes == {UA_NODEID_NUMERIC(0, UInt32(UA_NS0ID_OBJECTSFOLDER)),
                    UA_NODEID_NUMERIC(0, UInt32(UA_NS0ID_ENUMERATION))}

\* data types of namespace 0 that exist in every server
PredefinedTypes == {UA_NODEID_NUMERIC(0, UInt32(UA_NS0ID_INT32)),
                    UA_NODEID_NUMERIC(0, UInt32(UA_NS0ID_LOCALIZEDTEXT)),
                    UA_NODEID_NUMERIC(0, UInt32(UA_NS0ID_ENUMVALUETYPE))}

\* data type nodes added to the address space
DataTypeNodes == {n.nodeId : n \in {m \in nodes : m.nodeClass = "DataType"}}

\* UA_Variant_setArray: the variant views the first n elements of the array
UA_Variant_setArray(array, n, type) ==
    [type |-> type, arrayLength |-> n, data |-> SubSeq(array, 1, n)]

\* UA_Variant_setScalarCopy of an Int32
ScalarInt32(v) == [type |-> UA_NODEID_NUMERIC(0, UInt32(UA_NS0ID_INT32)), arrayLength |-> -1,
                   data |-> <<v>>]

EmptyVariant == [type |-> NoNodeId, arrayLength |-> -1, data |-> <<>>]

\* an array value fits the declared dimensions when every declared length is 0
\* (no constraint) or is the length supplied
ShapeOk(arrayDimensions, variant) ==
    \/ arrayDimensions = <<>>
    \/ /\ Len(arrayDimensions) = 1
       /\ variant.arrayLength >= 0
       /\ arrayDimensions[1] \in {0, variant.arrayLength}

\* outcome of adding a node: the id must be new and the parent must exist
AddNodeStatus(nodeId, parent) ==
    IF nodeId \in NodeIds THEN UA_STATUSCODE_BADNODEIDEXISTS
    ELSE IF parent \notin (NodeIds \cup PredefinedNodes)
         THEN UA_STATUSCODE_BADPARENTNODEIDINVALID
         ELSE UA_STATUSCODE_GOOD

\* outcome of adding a variable node: also the declared type must resolve and a
\* stored initial value must have the declared shape
AddVariableStatus(nodeId, parent, dataType, arrayDimensions, variant) ==
    IF AddNodeStatus(nodeId, parent) # UA_STATUSCODE_GOOD
    THEN AddNodeStatus(nodeId, parent)
    ELSE IF dataType \notin (PredefinedTypes \cup DataTypeNodes)
         THEN UA_STATUSCODE_BADTYPEMISMATCH
         ELSE IF ~ShapeOk(arrayDimensions, variant)
              THEN UA_STATUSCODE_BADTYPEMISMATCH
              ELSE UA_STATUSCODE_GOOD

Node(nodeId, nodeClass, name, parent, refType, dataType, dims, access, mode, variant) ==
    [nodeId |-> nodeId, nodeClass |-> nodeClass, name |-> name, parent |-> parent,
     refType |-> refType, dataType |-> dataType, arrayDimensions |-> dims,
     accessLevel |-> access, mode |-> mode, value |-> variant]

(* ---------------- identifier allocation ---------------- *)
\* variant of PreIncrement: the increment is lost
PreIncrement_lost(id) == id

\* ++FreeNodeId on a UA_UInt32
PreIncrement(id) ==
    [hi |-> IF id.lo + 1 = HalfMod THEN (id.hi + 1) % HalfMod ELSE id.hi,
     lo |-> (id.lo + 1) % HalfMod]

\* every creation function: the new id is UA_NODEID_NUMERIC(nsIndex, ++FreeNodeId)
TakeNodeId(nsIndex) ==
    /\ FreeNodeId' = PreIncrement(FreeNodeId)
    /\ handedOut' = Append(handedOut, UA_NODEID_NUMERIC(nsIndex, PreIncrement(FreeNodeId)))

NewNodeId(nsIndex) == UA_NODEID_NUMERIC(nsIndex, PreIncrement(FreeNodeId))

\* assert(retVal == UA_STATUSCODE_GOOD) followed by the return to main
AssertGood(retVal, node, returnTo) ==
    IF retVal = UA_STATUSCODE_GOOD
    THEN /\ nodes' = nodes \cup {node}
         /\ pc' = returnTo
    ELSE /\ nodes' = nodes
         /\ pc' = "aborted"

(* ---------------- the creation functions ---------------- *)
addFolderNode(nsIndex, returnTo) ==
    LET folderNodeId == NewNodeId(nsIndex)
        retVal == AddNodeStatus(folderNodeId, UA_NODEID_NUMERIC(0, UInt32(UA_NS0ID_OBJECTSFOLDER)))
    IN /\ TakeNodeId(nsIndex)
       /\ AssertGood(retVal,
                     Node(folderNodeId, "Object", "MyFolder",
                          UA_NODEID_NUMERIC(0, UInt32(UA_NS0ID_OBJECTSFOLDER)), "Organizes",
                          NoNodeId, <<>>, {}, "None", EmptyVariant),
                     returnTo)
       /\ UNCHANGED <<DataTypes, UsedDataTypes, customDataTypes>>

addEnumerationDataType(nsIndex, name, returnTo) ==
    LET enumerationDataTypeNodeId == NewNodeId(nsIndex)
        customEnumDataType == [typeName |-> name, typeId |-> enumerationDataTypeNodeId,
                               binaryEncodingId |-> enumerationDataTypeNodeId,
                               typeKind |-> "Enumeration"]
        retVal == AddNodeStatus(enumerationDataTypeNodeId,
                                UA_NODEID_NUMERIC(0, UInt32(UA_NS0ID_ENUMERATION)))
    IN /\ TakeNodeId(nsIndex)
       /\ customDataTypes' = IF customDataTypes = NULL THEN "DataTypeArray"
                             ELSE customDataTypes
       \* DataTypes[UsedDataTypes++] = customEnumDataType: a store past the last
       \* slot is undefined behaviour, after which nothing is known of the program
       /\ DataTypes' = IF UsedDataTypes \in DOMAIN DataTypes
                       THEN [DataTypes EXCEPT ![UsedDataTypes] = customEnumDataType]
                       ELSE DataTypes
       /\ UsedDataTypes' = UsedDataTypes + 1
       /\ AssertGood(retVal,
                     Node(enumerationDataTypeNodeId, "DataType", name,
                          UA_NODEID_NUMERIC(0, UInt32(UA_NS0ID_ENUMERATION)), "HasSubtype",
                          NoNodeId, <<>>, {}, "None", EmptyVariant),
                     IF UsedDataTypes \in DOMAIN DataTypes THEN returnTo ELSE "undefined")

\* the loop of addEnumValues: entry i has key i, "EnumValue i", "Description i"
enumValues ==
    [k \in 1 .. ENUMVALUES_LEN |->
        [value |-> k - 1, displayName |-> <<"EnumValue", k - 1>>,
         description |-> <<"Description", k - 1>>]]

addEnumValues(nsIndex, parent, returnTo) ==
    LET arrayDimensions == <<EnumValuesDim>>
        variant == UA_Variant_setArray(enumValues, EnumValuesArrayLen,
                                       UA_NODEID_NUMERIC(0, UInt32(UA_NS0ID_ENUMVALUETYPE)))
        nodeId == NewNodeId(nsIndex)
        retVal == AddVariableStatus(nodeId, parent,
                                    UA_NODEID_NUMERIC(0, UInt32(UA_NS0ID_ENUMVALUETYPE)),
                                    arrayDimensions, variant)
    IN /\ TakeNodeId(nsIndex)
       /\ AssertGood(retVal,
                     Node(nodeId, "Variable", "EnumValues", parent, "HasProperty",
                          UA_NODEID_NUMERIC(0, UInt32(UA_NS0ID_ENUMVALUETYPE)), arrayDimensions,
                          {"Read"}, "Stored", variant),
                     returnTo)
       /\ UNCHANGED <<DataTypes, UsedDataTypes, customDataTypes>>

\* the loop of addLocalizedText: entry i is "EnumString i"
enumStrings == [k \in 1 .. ENUMVALUES_LEN |-> <<"EnumString", k - 1>>]

addLocalizedText(nsIndex, parent, returnTo) ==
    LET arrayDimensions == <<EnumStringsDim>>
        variant == UA_Variant_setArray(enumStrings, EnumStringsArrayLen,
                                       UA_NODEID_NUMERIC(0, UInt32(UA_NS0ID_LOCALIZEDTEXT)))
        nodeId == NewNodeId(nsIndex)
        retVal == AddVariableStatus(nodeId, parent,
                                    UA_NODEID_NUMERIC(0, UInt32(UA_NS0ID_LOCALIZEDTEXT)),
                                    arrayDimensions, variant)
    IN /\ TakeNodeId(nsIndex)
       /\ AssertGood(retVal,
                     Node(nodeId, "Variable", "EnumStrings", parent, "HasProperty",
                          UA_NODEID_NUMERIC(0, UInt32(UA_NS0ID_LOCALIZEDTEXT)), arrayDimensions,
                          {"Read"}, "Stored", variant),
                     returnTo)
       /\ UNCHANGED <<DataTypes, UsedDataTypes, customDataTypes>>

addVariableNode(dataTypeNodeId, nsIndex, name, parent, returnTo) ==
    LET nodeId == NewNodeId(nsIndex)
        retVal == AddVariableStatus(nodeId, parent, dataTypeNodeId, <<>>, ScalarInt32(0))
    IN /\ TakeNodeId(nsIndex)
       /\ AssertGood(retVal,
                     Node(nodeId, "Variable", name, parent, "Organizes", dataTypeNodeId,
                          <<>>, {"Read", "Write"}, "Bound", EmptyVariant),
                     returnTo)
       /\ UNCHANGED <<DataTypes, UsedDataTypes, customDataTypes>>

(* ---------------- main, up to the start of serving ---------------- *)
\* variant of MainAfter: each variable is created before the members are attached
MainAfter_variableFirst(step) ==
    CASE step = "addFolderNode" -> "addEnumerationDataType_EnumValue"
      [] step = "addEnumerationDataType_EnumValue" -> "addVariableNode_EnumValue"
      [] step = "addVariableNode_EnumValue" -> "addEnumValues"
      [] step = "addEnumValues" -> "addEnumerationDataType_LocalizedText"
      [] step = "addEnumerationDataType_LocalizedText" -> "addVariableNode_LocalizedText"
      [] step = "addVariableNode_LocalizedText" -> "addLocalizedText"
      [] step = "addLocalizedText" -> "runUntilInterrupt"
      [] step = "runUntilInterrupt" -> "serving"
      [] step = "serving" -> "deleted"

\* the statement of main that follows the one at `step`
MainAfter(step) ==
    CASE step = "addFolderNode" -> "addEnumerationDataType_EnumValue"
      [] step = "addEnumerationDataType_EnumValue" -> "addEnumValues"
      [] step = "addEnumValues" -> "addVariableNode_EnumValue"
      [] step = "addVariableNode_EnumValue" -> "addEnumerationDataType_LocalizedText"
      [] step = "addEnumerationDataType_LocalizedText" -> "addLocalizedText"
      [] step = "addLocalizedText" -> "addVariableNode_LocalizedText"
      [] step = "addVariableNode_LocalizedText" -> "runUntilInterrupt"
      [] step = "runUntilInterrupt" -> "serving"
      [] step = "serving" -> "deleted"

main_addFolderNode ==
    /\ pc = "addFolderNode"
    /\ addFolderNode(testNs, MainAfter(pc))
    /\ parentNodeId' = NewNodeId(testNs)
    /\ UNCHANGED <<enumValueType, enumLocalizedText, now>>
    /\ UNCHANGED serveVars

main_addEnumerationDataType_EnumValue ==
    /\ pc = "addEnumerationDataType_EnumValue"
    /\ addEnumerationDataType(testNs, "CustomEnumValueType", MainAfter(pc))
    /\ enumValueType' = NewNodeId(testNs)
    /\ UNCHANGED <<parentNodeId, enumLocalizedText, now>>
    /\ UNCHANGED serveVars

main_addEnumValues ==
    /\ pc = "addEnumValues"
    /\ addEnumValues(testNs, enumValueType, MainAfter(pc))
    /\ UNCHANGED <<parentNodeId, enumValueType, enumLocalizedText, now>>
    /\ UNCHANGED serveVars

main_addVariableNode_EnumValue ==
    /\ pc = "addVariableNode_EnumValue"
    /\ addVariableNode(enumValueType, testNs, "EnumValueTypeVariable", parentNodeId,
                       MainAfter(pc))
    /\ UNCHANGED <<parentNodeId, enumValueType, enumLocalizedText, now>>
    /\ UNCHANGED serveVars

main_addEnumerationDataType_LocalizedText ==
    /\ pc = "addEnumerationDataType_LocalizedText"
    /\ addEnumerationDataType(testNs, "CustomLocalizedTextType", MainAfter(pc))
    /\ enumLocalizedText' = NewNodeId(testNs)
    /\ UNCHANGED <<parentNodeId, enumValueType, now>>
    /\ UNCHANGED serveVars

main_addLocalizedText ==
    /\ pc = "addLocalizedText"
    /\ addLocalizedText(testNs, enumLocalizedText, MainAfter(pc))
    /\ UNCHANGED <<parentNodeId, enumValueType, enumLocalizedText, now>>
    /\ UNCHANGED serveVars

main_addVariableNode_LocalizedText ==
    /\ pc = "addVariableNode_LocalizedText"
    /\ addVariableNode(enumLocalizedText, testNs, "LocalizedTextVariable", parentNodeId,
                       MainAfter(pc))
    /\ UNCHANGED <<parentNodeId, enumValueType, enumLocalizedText, now>>
    /\ UNCHANGED serveVars

\* UA_Server_runUntilInterrupt starts to serve
main_runUntilInterrupt ==
    /\ pc = "runUntilInterrupt"
    /\ pc' = MainAfter(pc)
    /\ UNCHANGED setupVars
    /\ UNCHANGED serveVars
    /\ UNCHANGED now

\* the interrupt ends UA_Server_runUntilInterrupt; UA_Server_delete; return 0
main_interrupted ==
    /\ pc = "serving"
    /\ pc' = MainAfter(pc)
    /\ UNCHANGED setupVars
    /\ UNCHANGED serveVars
    /\ UNCHANGED now

\* time passes while the program runs
Tick ==
    /\ pc \notin {"deleted", "aborted", "undefined"}
    /\ now < MaxTime
    /\ now' = now + 1
    /\ UNCHANGED pc
    /\ UNCHANGED setupVars
    /\ UNCHANGED serveVars

(* ---------------- the data source ---------------- *)
BoundNodes == {n \in nodes : n.mode = "Bound"}

TotalCalls == calls["EnumValueTypeVariable"] + calls["LocalizedTextVariable"]

\* the dataValue argument of readValue: no container, or a fresh one
DataValueArgs == {NULL, "dataValue"}

\* what UA_Variant_setScalarCopy can return
CopyOutcomes == {UA_STATUSCODE_GOOD, UA_STATUSCODE_BADOUTOFMEMORY}

\* payloads of a write: Int32 scalars (enumeration keys and others), an array, nothing
WritePayloads ==
    {ScalarInt32(v) : v \in {0, ENUMVALUES_LEN - 1, ENUMVALUES_LEN}}
        \cup {UA_Variant_setArray(<<0, 1>>, 2, UA_NODEID_NUMERIC(0, UInt32(UA_NS0ID_INT32))),
              EmptyVariant}

\* variant of NextValue: the wrap goes to 1
NextValue_wrapToOne(v) == IF v + 1 >= ENUMVALUES_LEN THEN 1 ELSE v + 1

\* variant of NextValue: the wrap comes one step late
NextValue_wrapLate(v) == IF v + 1 > ENUMVALUES_LEN THEN 0 ELSE v + 1

\* if(++value >= ENUMVALUES_LEN) value = 0;
NextValue(v) == IF v + 1 >= ENUMVALUES_LEN THEN 0 ELSE v + 1

\* variant of readValue: the rotating state is kept per node
readValue_perNode(node, dataValue, copyRet) ==
    IF dataValue # NULL
    THEN LET newValue == NextValue(calls[node.name] % ENUMVALUES_LEN)
             retVal == copyRet
             filled == IF retVal = UA_STATUSCODE_GOOD
                       THEN [UA_DataValue_init EXCEPT !.value = ScalarInt32(newValue),
                                                      !.hasValue = TRUE,
                                                      !.sourceTimestamp = now]
                       ELSE UA_DataValue_init
         IN /\ value' = newValue
            /\ calls' = [calls EXCEPT ![node.name] = @ + 1]
            /\ last' = [op |-> "read", node |-> node.name, arg |-> dataValue,
                        payload |-> EmptyVariant, status |-> retVal,
                        dataValue |-> filled, at |-> now]
            /\ okReads' = IF retVal = UA_STATUSCODE_GOOD THEN okReads + 1 ELSE okReads
    ELSE /\ last' = [op |-> "read", node |-> node.name, arg |-> dataValue,
                     payload |-> EmptyVariant, status |-> UA_STATUSCODE_BADNOTFOUND,
                     dataValue |-> UA_DataValue_init, at |-> now]
         /\ UNCHANGED <<value, calls, okReads>>

readValue(node, dataValue, copyRet) ==
    IF dataValue # NULL
    THEN LET newValue == NextValue(value)
             retVal == copyRet
             filled == IF retVal = UA_STATUSCODE_GOOD
                       THEN [UA_DataValue_init EXCEPT !.value = ScalarInt32(newValue),
                                                      !.hasValue = TRUE,
                                                      !.sourceTimestamp = now]
                       ELSE UA_DataValue_init
         IN /\ value' = newValue
            /\ calls' = [calls EXCEPT ![node.name] = @ + 1]
            /\ last' = [op |-> "read", node |-> node.name, arg |-> dataValue,
                        payload |-> EmptyVariant, status |-> retVal,
                        dataValue |-> filled, at |-> now]
            /\ okReads' = IF retVal = UA_STATUSCODE_GOOD THEN okReads + 1 ELSE okReads
    ELSE /\ last' = [op |-> "read", node |-> node.name, arg |-> dataValue,
                     payload |-> EmptyVariant, status |-> UA_STATUSCODE_BADNOTFOUND,
                     dataValue |-> UA_DataValue_init, at |-> now]
         /\ UNCHANGED <<value, calls, okReads>>

\* variant of writeValueReturn: a scalar Int32 is accepted
writeValueReturn_acceptsInt32(payload) ==
    IF payload.arrayLength = -1 /\ payload.type = UA_NODEID_NUMERIC(0, UInt32(UA_NS0ID_INT32))
    THEN UA_STATUSCODE_GOOD
    ELSE UA_STATUSCODE_BADNOTFOUND

\* return UA_STATUSCODE_BADNOTFOUND;
writeValueReturn(payload) == UA_STATUSCODE_BADNOTFOUND

\* variant of writeValue: the payload is stored in the rotating state before failing
writeValue_storing(node, payload) ==
    /\ last' = [op |-> "write", node |-> node.name, arg |-> "dataValue",
                payload |-> payload, status |-> writeValueReturn(payload),
                dataValue |-> UA_DataValue_init, at |-> now]
    /\ value' = IF payload.arrayLength = -1 /\ Len(payload.data) = 1
                THEN payload.data[1] % ENUMVALUES_LEN
                ELSE value
    /\ UNCHANGED <<calls, okReads>>

writeValue(node, payload) ==
    /\ last' = [op |-> "write", node |-> node.name, arg |-> "dataValue",
                payload |-> payload, status |-> writeValueReturn(payload),
                dataValue |-> UA_DataValue_init, at |-> now]
    /\ UNCHANGED <<value, calls, okReads>>

\* the server serves a read of a data-source variable
Read ==
    /\ pc = "serving"
    /\ \E node \in BoundNodes, dataValue \in DataValueArgs, copyRet \in CopyOutcomes :
          /\ dataValue # NULL => TotalCalls < MaxReads
          /\ dataValue = NULL => copyRet = UA_STATUSCODE_GOOD
          /\ readValue(node, dataValue, copyRet)
    /\ UNCHANGED <<pc, now>>
    /\ UNCHANGED setupVars

\* the server serves a write of a data-source variable
Write ==
    /\ pc = "serving"
    /\ \E node \in BoundNodes, payload \in WritePayloads : writeValue(node, payload)
    /\ UNCHANGED <<pc, now>>
    /\ UNCHANGED setupVars

Next ==
    \/ main_addFolderNode
    \/ main_addEnumerationDataType_EnumValue
    \/ main_addEnumValues
    \/ main_addVariableNode_EnumValue
    \/ main_addEnumerationDataType_LocalizedText
    \/ main_addLocalizedText
    \/ main_addVariableNode_LocalizedText
    \/ main_runUntilInterrupt
    \/ main_interrupted
    \/ Tick
    \/ Read
    \/ Write

Spec == Init /\ [][Next]_vars

(* ======================= the claims ======================= *)
Served(op) == last.op = op
ReadOk == last.op = "read" /\ last.status = UA_STATUSCODE_GOOD
Returned == last.dataValue.value.data[1]
OtherVariable(name) == CHOOSE m \in VariableNames : m # name

\* C1 as stated: the k-th successful read returns k mod 5, k counting the
\* successful reads only.
C1_KthSuccessfulRead ==
    ReadOk => Returned = okReads % ENUMVALUES_LEN

\* C1, amended: the k-th readValue call that is given an output container (counted
\* over both variables, whether or not its value copy succeeds) computes k mod 5
\* and returns it when it succeeds; hence the k-th successful read returns k mod 5
\* as long as no value copy failed, and 7 successful reads in a row end with 2.
C1_KthContainerRead ==
    /\ ReadOk => Returned = TotalCalls % ENUMVALUES_LEN
    /\ (ReadOk /\ okReads = TotalCalls) => Returned = okReads % ENUMVALUES_LEN
    /\ (ReadOk /\ okReads = TotalCalls /\ okReads = 7) => Returned = 2

C1_SevenReads ==
    ReadOk /\ okReads = 7 /\ TotalCalls = 7 /\ Returned = 2

\* C2: every write of a data-source variable fails with the status writeValue
\* returns (not found), whatever the payload and the state of the rotating value.
C2_WritesRejected ==
    Served("write") => (last.status = UA_STATUSCODE_BADNOTFOUND
                        /\ last.status # UA_STATUSCODE_GOOD)

C2_ValidWriteRejected ==
    /\ Served("write")
    /\ last.payload = ScalarInt32(ENUMVALUES_LEN - 1)
    /\ value = 3
    /\ last.status = UA_STATUSCODE_BADNOTFOUND

\* C3 as stated: each variable has its own rotating state, so a successful read of
\* a variable returns the number of reads of that variable mod 5.
C3_PerNodeState ==
    ReadOk => Returned = calls[last.node] % ENUMVALUES_LEN

\* C3, amended: the two variables share one rotating state: it always equals the
\* number of reads (given a container) of both variables together mod 5, so what
\* a read of one variable returns depends on the reads of the other; a variable
\* read alone yields 1,2,3,4,0,...
C3_SharedState ==
    /\ value = TotalCalls % ENUMVALUES_LEN
    /\ ReadOk => Returned = (calls[last.node] + calls[OtherVariable(last.node)])
                                % ENUMVALUES_LEN
    /\ (ReadOk /\ calls[OtherVariable(last.node)] = 0)
           => Returned = calls[last.node] % ENUMVALUES_LEN

C3_InterleavedReads ==
    /\ ReadOk
    /\ last.node = "LocalizedTextVariable"
    /\ calls["EnumValueTypeVariable"] = 2
    /\ calls["LocalizedTextVariable"] = 1
    /\ Returned = 3

\* C4: the ids handed out by the creation functions are all in the test namespace
\* and strictly increasing, the last one is FreeNodeId, and the nodes created
\* carry pairwise different ids, each one handed out.
C4_IdsStrictlyIncreasing ==
    /\ \A i, j \in 1 .. Len(handedOut) :
          i < j => /\ handedOut[i].ns = handedOut[j].ns
                   /\ UInt32Less(handedOut[i].id, handedOut[j].id)
    /\ \A i \in 1 .. Len(handedOut) :
          UInt32Less([hi |-> FreeNodeIdInitHi, lo |-> FreeNodeIdInitLo], handedOut[i].id)
    /\ handedOut # <<>> => handedOut[Len(handedOut)].id = FreeNodeId
    /\ NodeIds = {handedOut[i] : i \in 1 .. Len(handedOut)}
    /\ Cardinality(NodeIds) = Cardinality(nodes)
    /\ Cardinality(nodes) = Len(handedOut)

C4_AllCreated ==
    pc = "serving" /\ Len(handedOut) = 7 /\ Cardinality(nodes) = 7

\* C5: a successful read returns a data value marked as carrying a value and a
\* source timestamp, the timestamp being the time of the return; a failed read
\* carries neither.
C5_ReadCarriesValueAndTimestamp ==
    Served("read") =>
        IF last.status = UA_STATUSCODE_GOOD
        THEN /\ last.dataValue.hasValue
             /\ last.dataValue.hasSourceTimestamp
             /\ last.dataValue.sourceTimestamp = last.at
        ELSE /\ ~last.dataValue.hasValue
             /\ ~last.dataValue.hasSourceTimestamp

StoredArrayNodes == {n \in nodes : n.mode = "Stored" /\ Len(n.arrayDimensions) = 1}

RegisteredTypes == {DataTypes[i].typeId : i \in 0 .. UsedDataTypes - 1}

\* the custom types that have a non-empty member list attached
TypesWithMembers ==
    {n.parent : n \in {m \in nodes : m.mode = "Stored" /\ m.value.arrayLength > 0}}

\* C7: a variable of a custom type exists only once the type is registered and
\* its member list is attached, and reads and writes are served only once both
\* types, both member lists and both variables exist.
C7_SetupOrdering ==
    /\ \A n \in BoundNodes :
          /\ n.dataType \in RegisteredTypes
          /\ n.dataType \in DataTypeNodes
          /\ n.dataType \in TypesWithMembers
    /\ TypesWithMembers \subseteq RegisteredTypes
    /\ pc \in {"serving", "deleted"} =>
          /\ UsedDataTypes = 2
          /\ Cardinality(BoundNodes) = 2
          /\ Cardinality(TypesWithMembers) = 2
          /\ Cardinality(nodes) = 7
    /\ last.op # "none" => pc \in {"serving", "deleted"}

C7_ServingAfterSetup ==
    /\ pc = "serving"
    /\ last.op = "read"
    /\ \A n \in BoundNodes : n.dataType \in TypesWithMembers
    /\ Cardinality(BoundNodes) = 2

\* the keys of the EnumValues members and the positions of the EnumStrings members
EnumValueKeys ==
    UNION {{n.value.data[k].value : k \in 1 .. Len(n.value.data)} :
              n \in {m \in nodes : m.name = "EnumValues"}}
EnumStringPositions ==
    UNION {{k - 1 : k \in 1 .. Len(n.value.data)} :
              n \in {m \in nodes : m.name = "EnumStrings"}}

\* C8: the rotating value stays in 0..4 and every successful read returns a scalar
\* Int32 that is a key of the EnumValues members and a position of the EnumStrings
\* members.
C8_ValueIsEnumKey ==
    /\ value \in 0 .. ENUMVALUES_LEN - 1
    /\ ReadOk =>
          /\ last.dataValue.value.arrayLength = -1
          /\ last.dataValue.value.type = UA_NODEID_NUMERIC(0, UInt32(UA_NS0ID_INT32))
          /\ Returned \in 0 .. ENUMVALUES_LEN - 1
          /\ Returned \in EnumValueKeys
          /\ Returned \in EnumStringPositions

C8_WrappedRead ==
    ReadOk /\ TotalCalls = ENUMVALUES_LEN /\ Returned = 0

\* C9: a step that serves a write, or a read without an output container, leaves
\* the rotating value and the read counts as they were.
C9_FailedOpsKeepState ==
    [][(last'.op = "write" \/ (last'.op = "read" /\ last'.arg = NULL))
          => (value' = value /\ calls' = calls /\ okReads' = okReads)]_vars

C9_FailedOpBetweenReads ==
    /\ (Served("write") \/ (Served("read") /\ last.arg = NULL))
    /\ last.status = UA_STATUSCODE_BADNOTFOUND
    /\ value = 2
    /\ okReads = 2

\* C10: once the table is installed, the size it advertises is the number of
\* registered descriptors, that number is at most the capacity, every advertised
\* slot holds a registered descriptor and no registration stored outside the table.
C10_TypeTableConsistent ==
    /\ customDataTypes # NULL =>
          /\ DataTypeArray.typesSize = UsedDataTypes
          /\ \A i \in 0 .. DataTypeArray.typesSize - 1 : DataTypes[i] # ZeroDataType
    /\ UsedDataTypes <= DataTypesLen
    /\ pc # "undefined"

====
